---- MODULE Spec2Model ----
(***************************************************************************)
(* Pattern-verbalizer pairs (tasks/superglue/pvp.py): the truncation       *)
(* engine, the encoding orchestrator, the per-task pattern dispatch and    *)
(* the verbalizer-file loader, as state machines.                          *)
(***************************************************************************)
EXTENDS Integers, Sequences, FiniteSets, TLC

\* ------------------------------------------------------------------ bounds
MaxSegs == 2          \* segments per part in the truncation inputs
MaxSegLen == 1        \* tokens per segment in the truncation inputs
MaxMaxLength == 4     \* largest max_length tried
MaxLiteralLen == 2    \* tokens of a non-shortenable segment in the 10/4 scenario

\* ------------------------------------------------------- truncation state
VARIABLES
    parts_a,               \* truncate's parts_a: sequence of <<token ids, shortenable>>
    parts_b,               \* truncate's parts_b
    answer,                \* truncate's answer
    max_length,            \* truncate's max_length
    num_tokens_to_remove,  \* local of truncate, set before the loop
    iter,                  \* iterations of the for loop completed
    pc,                    \* position in truncate: call, loop, returned, raised
    init_a,                \* parts_a as it was when truncate was called
    init_b,                \* parts_b as it was when truncate was called
    last                   \* the latest loop iteration: side chosen, counts compared

tvars == <<parts_a, parts_b, answer, max_length, num_tokens_to_remove, iter, pc,
           init_a, init_b, last>>

\* ------------------------------------------------- verbalizer-file state
VARIABLES
    fh,            \* the lines of the verbalizer file, fh.read().splitlines()
    pattern_id,    \* the pattern id the PVP was constructed with
    verbalizers,   \* the table _load_verbalizer_from_file builds
    vpc,           \* idle, file (not loaded), loaded, load_raised, called
    label,         \* the argument of the latest verbalize(label) call
    vresult        \* what that call did: [raised, value]

fvars == <<fh, pattern_id, verbalizers, vpc, label, vresult>>

\* --------------------------------------------------------- encode state
VARIABLES
    task,            \* the key of PVPS the PVP was built for
    label_list,      \* self.label_list
    max_seq_length,  \* self.max_seq_length
    example,         \* the example handed to encode or get_parts
    priming,         \* encode's argument priming
    labeled,         \* encode's argument labeled
    epc,             \* idle, ready, got_parts, candidates, returned, raised
    answers,         \* encode's local answers
    cand,            \* candidates of answers the loop has completed
    ids_list,        \* encode's locals ids_list ... target_list
    positions_list,
    sep_list,
    mask_list,
    target_list,
    this_list,       \* <<this_parts_a, this_parts_b>> of each completed candidate
    ret              \* what the call returned or raised

evars == <<task, label_list, max_seq_length, example, priming, labeled, epc, answers, cand,
           ids_list, positions_list, sep_list, mask_list, target_list, this_list, ret>>

\* ------------------------------------------- get_verbalization_ids state
VARIABLES
    word_arg,                \* the verbalization handed to get_verbalization_ids
    tokenizer,           \* the tokenizer, as the ids it gives the texts it is asked for
    force_arg,  \* the argument force_single_token
    gpc,                 \* idle, call, returned, raised
    gresult              \* what get_verbalization_ids returned

gvars == <<word_arg, tokenizer, force_arg, gpc, gresult>>

vars == <<tvars, fvars, evars, gvars>>

\* ---------------------------------------------------------------- helpers
RECURSIVE SumLens(_, _, _)
SumLens(parts, only_shortenable, k) ==
    IF k = 0 THEN 0
    ELSE SumLens(parts, only_shortenable, k - 1)
         + (IF (~only_shortenable) \/ parts[k][2] THEN Len(parts[k][1]) ELSE 0)

\* PVP._seq_length
_seq_length(parts, only_shortenable) ==
    IF parts # <<>> THEN SumLens(parts, only_shortenable, Len(parts)) ELSE 0

SetMax(S) == CHOOSE m \in S : \A x \in S : x <= m

\* the indices _remove_last takes its max over
RemovableIdx(parts) ==
    {idx \in 1..Len(parts) : parts[idx][2] /\ parts[idx][1] # <<>>}

\* s[:-1]
DropLast(s) == SubSeq(s, 1, Len(s) - 1)

\* a _remove_last that returns quietly when nothing can be removed
RemoveLastSilent(parts) ==
    IF RemovableIdx(parts) = {}
    THEN [raised |-> FALSE, parts |-> parts]
    ELSE LET last_idx == SetMax(RemovableIdx(parts))
         IN [raised |-> FALSE,
             parts |-> [parts EXCEPT ![last_idx] = <<DropLast(parts[last_idx][1]), parts[last_idx][2]>>]]

\* a _remove_last that ignores the shortenable tag
RemoveLastAnySegment(parts) ==
    LET nonempty == {idx \in 1..Len(parts) : parts[idx][1] # <<>>}
    IN IF nonempty = {}
       THEN [raised |-> TRUE, parts |-> parts]
       ELSE LET last_idx == SetMax(nonempty)
            IN [raised |-> FALSE,
                parts |-> [parts EXCEPT ![last_idx] = <<DropLast(parts[last_idx][1]), parts[last_idx][2]>>]]

\* PVP._remove_last: max() of an empty generator raises ValueError
_remove_last(parts) ==
    IF RemovableIdx(parts) = {}
    THEN [raised |-> TRUE, parts |-> parts]
    ELSE LET last_idx == SetMax(RemovableIdx(parts))
         IN [raised |-> FALSE,
             parts |-> [parts EXCEPT ![last_idx] = <<DropLast(parts[last_idx][1]), parts[last_idx][2]>>]]

\* tasks.data_utils.num_special_tokens_to_add: one start token, one separator
\* when part B is present and add_sep, one answer placeholder, the answer's length
num_special_tokens_to_add(text_a_ids, text_b_ids, answer_ids, add_cls, add_sep, add_piece) ==
    (IF add_cls THEN 1 ELSE 0)
    + (IF add_sep /\ text_b_ids # <<>> THEN 1 ELSE 0)
    + (IF add_piece THEN 1 ELSE 0)
    + Len(answer_ids)

\* total_len of truncate, before the loop
TotalLen(pa, pb, ans) ==
    _seq_length(pa, FALSE) + _seq_length(pb, FALSE)
    + num_special_tokens_to_add(pa, pb, ans, TRUE, FALSE, TRUE)

\* an off-by-one num_tokens_to_remove
NumTokensToRemoveOffByOne(pa, pb, ans, ml) == TotalLen(pa, pb, ans) - ml + 1

\* num_tokens_to_remove of truncate
NumTokensToRemove(pa, pb, ans, ml) == TotalLen(pa, pb, ans) - ml

\* a loop condition that shortens part A on ties
ShortenAOnTie(pa, pb) == _seq_length(pa, TRUE) >= _seq_length(pb, TRUE)

\* a loop condition that shortens the shorter side
ShortenAWhenShorter(pa, pb) == _seq_length(pa, TRUE) < _seq_length(pb, TRUE)

\* the if of truncate's loop: TRUE selects parts_a, FALSE parts_b
ShortenA(pa, pb) == _seq_length(pa, TRUE) > _seq_length(pb, TRUE)

\* one iteration of truncate's loop
LoopBody(pa, pb) ==
    IF ShortenA(pa, pb)
    THEN LET r == _remove_last(pa) IN [raised |-> r.raised, a |-> r.parts, b |-> pb, side |-> "a"]
    ELSE LET r == _remove_last(pb) IN [raised |-> r.raised, a |-> pa, b |-> r.parts, side |-> "b"]

RECURSIVE Loop(_, _, _)
\* n iterations of truncate's loop, stopping at the first that raises
Loop(pa, pb, n) ==
    IF n = 0 THEN [raised |-> FALSE, a |-> pa, b |-> pb]
    ELSE LET r == LoopBody(pa, pb)
         IN IF r.raised THEN [raised |-> TRUE, a |-> r.a, b |-> r.b]
            ELSE Loop(r.a, r.b, n - 1)

\* PVP.truncate as a whole: the parts as the call leaves them, and whether it raised
truncate(pa, pb, ans, ml) ==
    IF NumTokensToRemove(pa, pb, ans, ml) <= 0
    THEN [raised |-> FALSE, a |-> pa, b |-> pb]
    ELSE Loop(pa, pb, NumTokensToRemove(pa, pb, ans, ml))

\* ------------------------------------------------------ truncation inputs
\* token ids of a segment: distinct within a part, so that any misplaced
\* removal shows
SegTokens(base, n) == [j \in 1..n |-> base + j]

\* a segment is shortenable text of 0..MaxSegLen tokens or a one-token literal
SegShapes == ((0..MaxSegLen) \X {TRUE}) \cup {<<1, FALSE>>}

Shapes == UNION {[1..k -> SegShapes] : k \in 0..MaxSegs}

PartsOf(shape, base) ==
    [k \in 1..Len(shape) |-> <<SegTokens(base + 10 * k, shape[k][1]), shape[k][2]>>]

PartsInputs(base) == {PartsOf(sh, base) : sh \in Shapes}

AnswerInputs == {<<>>, <<901>>}

NoIteration == [side |-> "none", sa |-> 0, sb |-> 0]

\* ------------------------------------------------------ truncation actions
TruncInit ==
    /\ parts_a \in PartsInputs(100)
    /\ parts_b \in PartsInputs(200)
    /\ answer \in AnswerInputs
    /\ max_length \in 0..MaxMaxLength
    /\ init_a = parts_a
    /\ init_b = parts_b
    /\ num_tokens_to_remove = 0
    /\ iter = 0
    /\ pc = "call"
    /\ last = NoIteration

NoReturn == [raised |-> FALSE, error |-> "", value |-> <<>>]

NoExample == [text_a |-> <<>>, text_b |-> <<>>, answers |-> <<>>, question |-> "",
              has_placeholder |-> FALSE,
              label |-> [kind |-> "str", value |-> "", items |-> <<>>], guid |-> 0]

\* get_verbalization_ids not called on its own
IdsIdle ==
    /\ word_arg = ""
    /\ tokenizer = NoExample
    /\ force_arg = FALSE
    /\ gpc = "idle"
    /\ gresult = NoReturn

\* encode not in use
EncIdle ==
    /\ task = ""
    /\ label_list = <<>>
    /\ max_seq_length = 0
    /\ example = NoExample
    /\ priming = FALSE
    /\ labeled = FALSE
    /\ epc = "idle"
    /\ answers = <<>>
    /\ cand = 0
    /\ ids_list = <<>>
    /\ positions_list = <<>>
    /\ sep_list = <<>>
    /\ mask_list = <<>>
    /\ target_list = <<>>
    /\ this_list = <<>>
    /\ ret = NoReturn

\* truncate not in use
TruncIdle ==
    /\ parts_a = <<>>
    /\ parts_b = <<>>
    /\ answer = <<>>
    /\ max_length = 0
    /\ init_a = <<>>
    /\ init_b = <<>>
    /\ num_tokens_to_remove = 0
    /\ iter = 0
    /\ pc = "idle"
    /\ last = NoIteration

\* lines 179-184: the length computation and the early return
TruncateEnter ==
    /\ pc = "call"
    /\ num_tokens_to_remove' = NumTokensToRemove(parts_a, parts_b, answer, max_length)
    /\ pc' = IF num_tokens_to_remove' <= 0 THEN "returned" ELSE "loop"
    /\ UNCHANGED <<parts_a, parts_b, answer, max_length, iter, init_a, init_b, last>>
    /\ UNCHANGED <<fvars, evars, gvars>>

\* lines 186-190: one iteration of the loop
TruncateIterate ==
    /\ pc = "loop"
    /\ iter < num_tokens_to_remove
    /\ LET r == LoopBody(parts_a, parts_b)
       IN /\ parts_a' = r.a
          /\ parts_b' = r.b
          /\ last' = [side |-> r.side, sa |-> _seq_length(parts_a, TRUE),
                      sb |-> _seq_length(parts_b, TRUE)]
          /\ IF r.raised
             THEN pc' = "raised" /\ iter' = iter
             ELSE pc' = "loop" /\ iter' = iter + 1
    /\ UNCHANGED <<answer, max_length, num_tokens_to_remove, init_a, init_b>>
    /\ UNCHANGED <<fvars, evars, gvars>>

\* line 186: range exhausted, truncate returns
TruncateExit ==
    /\ pc = "loop"
    /\ iter = num_tokens_to_remove
    /\ pc' = "returned"
    /\ UNCHANGED <<parts_a, parts_b, answer, max_length, num_tokens_to_remove, iter,
                   init_a, init_b, last>>
    /\ UNCHANGED <<fvars, evars, gvars>>

TruncNext == TruncateEnter \/ TruncateIterate \/ TruncateExit

\* ------------------------------------------------- verbalizer-file loader
\* A line is the words line.split() yields and whether whitespace surrounds
\* them; a word is a string.  DigitWords are the words str.isdigit accepts.
DigitWords == {"0", "1"}

\* int(line)
IntOf(w) == IF w = "0" THEN 0 ELSE 1

\* the key None of the table
NoneKey == -1

Line(words, padded) == [words |-> words, padded |-> padded]

\* line.isdigit(): digits only, nothing else on the line
IsDigitLine(line) ==
    /\ ~line.padded
    /\ Len(line.words) = 1
    /\ line.words[1] \in DigitWords

\* the truth value of the string line
NonEmptyLine(line) == line.padded \/ line.words # <<>>

EmptyDict == [k \in {} |-> <<>>]

\* d[k] = v on a dict
DictSet(d, k, v) == [x \in (DOMAIN d) \cup {k} |-> IF x = k THEN v ELSE d[x]]

\* verbalizers[k] on the defaultdict(dict): a missing key is created empty
DefaultDictTouch(dd, k) == IF k \in DOMAIN dd THEN dd ELSE DictSet(dd, k, EmptyDict)

Tail1(s) == SubSeq(s, 2, Len(s))

RECURSIVE ReadLines(_, _, _, _)
\* lines 230-235, from line i on: the table, or raised when a line of
\* whitespace alone leaves nothing to unpack into label
ReadLines(lines, i, current_pattern_id, table) ==
    IF i > Len(lines) THEN [raised |-> FALSE, verbalizers |-> table]
    ELSE LET line == lines[i]
         IN IF IsDigitLine(line)
            THEN ReadLines(lines, i + 1, IntOf(line.words[1]), table)
            ELSE IF NonEmptyLine(line)
                 THEN IF line.words = <<>>
                      THEN [raised |-> TRUE, verbalizers |-> table]
                      ELSE LET t == DefaultDictTouch(table, current_pattern_id)
                           IN ReadLines(lines, i + 1, current_pattern_id,
                                  [t EXCEPT ![current_pattern_id] =
                                      DictSet(t[current_pattern_id], line.words[1],
                                              Tail1(line.words))])
                 ELSE ReadLines(lines, i + 1, current_pattern_id, table)

\* _load_verbalizer_from_file up to the return: the loop, then line 237, whose
\* verbalizers[pattern_id] creates the selected section when the file has none
_load_verbalizer_from_file(lines, pid) ==
    LET r == ReadLines(lines, 1, NoneKey, EmptyDict)
    IN IF r.raised THEN r
       ELSE [raised |-> FALSE, verbalizers |-> DefaultDictTouch(r.verbalizers, pid)]

\* a closure that looks the label up with a default of the empty list
VerbalizeWithDefault(table, pid, l) ==
    IF l \in DOMAIN DefaultDictTouch(table, pid)[pid]
    THEN [raised |-> FALSE, value |-> table[pid][l]]
    ELSE [raised |-> FALSE, value |-> <<>>]

\* the closure verbalize(label), lines 239-240: the section is a plain dict,
\* a missing label raises KeyError
verbalize_closure(table, pid, l) ==
    IF l \in DOMAIN DefaultDictTouch(table, pid)[pid]
    THEN [raised |-> FALSE, value |-> table[pid][l]]
    ELSE [raised |-> TRUE, value |-> <<>>]

\* ------------------------------------------------- verbalizer-file inputs
MaxLines == 3         \* lines of the verbalizer file

FileLabels == {"A", "B", "1"}

Realizations == {<<>>, <<"x">>, <<"x", "y">>}

LineInputs ==
    {Line(<<>>, FALSE), Line(<<>>, TRUE), Line(<<"0">>, TRUE)}
    \cup {Line(<<d>>, FALSE) : d \in DigitWords}
    \cup {Line(<<l>> \o r, FALSE) : l \in FileLabels, r \in Realizations}

FileInputs == UNION {[1..n -> LineInputs] : n \in 0..MaxLines}

FilePatternIdInputs == 0..2

LabelInputs == {"A", "B", "0"}

NoResult == [raised |-> FALSE, value |-> <<>>]

\* ------------------------------------------------ verbalizer-file actions
VerbIdle ==
    /\ fh = <<>>
    /\ pattern_id = 0
    /\ verbalizers = EmptyDict
    /\ vpc = "idle"
    /\ label = ""
    /\ vresult = NoResult

VerbInit ==
    /\ fh \in FileInputs
    /\ pattern_id \in FilePatternIdInputs
    /\ verbalizers = EmptyDict
    /\ vpc = "file"
    /\ label = ""
    /\ vresult = NoResult

\* PVP.__init__ with a verbalizer_file, lines 51-52
LoadVerbalizer ==
    /\ vpc = "file"
    /\ LET r == _load_verbalizer_from_file(fh, pattern_id)
       IN /\ verbalizers' = r.verbalizers
          /\ vpc' = IF r.raised THEN "load_raised" ELSE "loaded"
    /\ UNCHANGED <<fh, pattern_id, label, vresult>>
    /\ UNCHANGED <<tvars, evars, gvars>>

\* a call of the loaded closure, lines 239-240
Verbalize ==
    /\ vpc \in {"loaded", "called"}
    /\ \E l \in LabelInputs :
          /\ label' = l
          /\ vresult' = verbalize_closure(verbalizers, pattern_id, l)
    /\ vpc' = "called"
    /\ UNCHANGED <<fh, pattern_id, verbalizers>>
    /\ UNCHANGED <<tvars, evars, gvars>>

VerbNext == LoadVerbalizer \/ Verbalize

\* a PVP built with a verbalizer file, nothing else under way
VerbalizerInit == TruncIdle /\ VerbInit /\ EncIdle /\ IdsIdle

SpecVerbalizer == VerbalizerInit /\ [][VerbNext]_vars
Init == TruncInit /\ VerbIdle /\ EncIdle /\ IdsIdle
Next == TruncNext
Spec == Init /\ [][Next]_vars

\* ----------------------------------------- the 10 / 4 / 8 truncation scenario
FairInit ==
    /\ VerbIdle
    /\ EncIdle
    /\ IdsIdle
    /\ \E k \in 0..10, n \in 0..MaxLiteralLen :
          parts_a = << <<SegTokens(110, k), TRUE>>, <<SegTokens(130, n), FALSE>>,
                       <<SegTokens(150, 10 - k), TRUE>> >>
    /\ \E k \in 0..4, n \in 0..MaxLiteralLen :
          parts_b = << <<SegTokens(210, k), TRUE>>, <<SegTokens(230, n), FALSE>>,
                       <<SegTokens(250, 4 - k), TRUE>> >>
    /\ answer \in AnswerInputs
    /\ max_length = TotalLen(parts_a, parts_b, answer) - 8
    /\ init_a = parts_a
    /\ init_b = parts_b
    /\ num_tokens_to_remove = 0
    /\ iter = 0
    /\ pc = "call"
    /\ last = NoIteration

SpecFair == FairInit /\ [][Next]_vars

\* ------------------------------------------------------ pattern dispatch
\* A filled pattern is two sequences of segments.  A segment is <<text>> for a
\* plain string and <<text, TRUE>> for a string marked shortenable.  Text taken
\* from the example is written by the name of its field, in angle brackets;
\* template text is written as in the source.
shortenable(s) == <<s, TRUE>>

Str(s) == <<s>>

MaskToken == "[MASK]"

Filled(a, b) == [kind |-> "parts", error |-> "", a |-> a, b |-> b]

\* a get_parts that falls off the end of its branches returns None
ReturnsNone == [kind |-> "none", error |-> "", a |-> <<>>, b |-> <<>>]

Raises(e) == [kind |-> "raised", error |-> e, a |-> <<>>, b |-> <<>>]

\* CopaPVP.get_parts
CopaGetParts(pid, ex) ==
    LET premise == shortenable("<text_a>")
        choice1 == Str("<choice1>")
        choice2 == Str("<choice2>")
    IN IF ex.question \notin {"cause", "effect"} THEN Raises("AssertionError")
       ELSE IF ex.question = "cause"
       THEN IF pid = 0
            THEN Filled(<<Str("\""), choice1, Str("\" or \""), choice2, Str("\"?"), premise,
                          Str("because"), Str(MaskToken), Str(".")>>, <<>>)
            ELSE IF pid = 1
            THEN Filled(<<choice1, Str("or"), choice2, Str("?"), premise, Str("because"),
                          Str(MaskToken), Str(".")>>, <<>>)
            ELSE ReturnsNone
       ELSE IF pid = 0
            THEN Filled(<<Str("\""), choice1, Str("\" or \""), choice2, Str("\"?"), premise,
                          Str(", so"), Str(MaskToken), Str(".")>>, <<>>)
            ELSE IF pid = 1
            THEN Filled(<<choice1, Str("or"), choice2, Str("?"), premise, Str(", so"),
                          Str(MaskToken), Str(".")>>, <<>>)
            ELSE ReturnsNone

\* WscPVP.get_parts: lines 292-293 mark the pronoun among the words of
\* text_a before the pattern id is looked at; with no words the index fails
\* (span2_index is taken to point at a word whenever there is one)
WscGetParts(pid, ex) ==
    LET text_a == shortenable("<text_a>")
    IN IF ex.text_a = <<>> THEN Raises("IndexError")
       ELSE IF pid = 0
       THEN Filled(<<text_a, Str("The pronoun '*<span2_text>*' refers to"), Str(MaskToken),
                     Str(".")>>, <<>>)
       ELSE IF pid = 1
       THEN Filled(<<text_a,
                     Str("In the previous sentence, the pronoun '*<span2_text>*' refers to"),
                     Str(MaskToken), Str(".")>>, <<>>)
       ELSE IF pid = 2
       THEN Filled(<<text_a,
                     Str("Question: In the passage above, what does the pronoun '*<span2_text>*' refer to? Answer: "),
                     Str(MaskToken), Str(".")>>, <<>>)
       ELSE ReturnsNone

\* RecordPVP.get_parts
RecordGetParts(pid, ex) ==
    LET premise == shortenable("<text_a>")
    IN IF ~ex.has_placeholder THEN Raises("AssertionError")
       ELSE Filled(<<premise, Str("<text_b with [MASK]>")>>, <<>>)

\* RtePVP.get_parts
RteGetParts(pid, ex) ==
    LET text_a == shortenable("<text_a>")
        text_b == shortenable("<text_b>")
    IN IF pid = 0
       THEN Filled(<<Str("\""), text_b, Str("\" ?")>>,
                   <<Str(MaskToken), Str(", \""), text_a, Str("\"")>>)
       ELSE IF pid = 1
       THEN Filled(<<text_b, Str("?")>>, <<Str(MaskToken), Str(","), text_a>>)
       ELSE IF pid = 2
       THEN Filled(<<Str("\""), text_b, Str("\" ?")>>,
                   <<Str(MaskToken), Str(". \""), text_a, Str("\"")>>)
       ELSE IF pid = 3
       THEN Filled(<<text_b, Str("?")>>, <<Str(MaskToken), Str("."), text_a>>)
       ELSE IF pid = 4
       THEN Filled(<<text_a, Str(" question: "), shortenable("<text_b>"),
                     Str(" True or False? answer:"), Str(MaskToken)>>, <<>>)
       ELSE ReturnsNone

\* CbPVP.get_parts
CbGetParts(pid, ex) ==
    IF pid = 4
    THEN Filled(<<shortenable("<text_a>"), Str(" question: "), shortenable("<text_b>"),
                  Str(" true, false or neither? answer:"), Str(MaskToken)>>, <<>>)
    ELSE RteGetParts(pid, ex)

\* BoolQPVP.get_parts
BoolQGetParts(pid, ex) ==
    LET passage == shortenable("<text_a>")
        question == shortenable("<text_b>")
    IN IF pid < 2
       THEN Filled(<<passage, Str(". Question: "), question, Str("? Answer: "), Str(MaskToken),
                     Str(".")>>, <<>>)
       ELSE IF pid < 4
       THEN Filled(<<passage, Str(". Based on the previous passage, "), question, Str("?"),
                     Str(MaskToken), Str(".")>>, <<>>)
       ELSE Filled(<<Str("Based on the following passage, "), question, Str("?"),
                     Str(MaskToken), Str("."), passage>>, <<>>)

\* MultiRcPVP.get_parts
MultiRcGetParts(pid, ex) ==
    LET passage == shortenable("<text_a>")
        question == Str("<text_b>")
        answer_ == Str("<answer>")
    IN IF pid = 0
       THEN Filled(<<passage, Str(". Question: "), question, Str("? Is it "), answer_, Str("?"),
                     Str(MaskToken), Str(".")>>, <<>>)
       ELSE IF pid = 1
       THEN Filled(<<passage, Str(". Question: "), question, Str("? Is the correct answer \""),
                     answer_, Str("\"?"), Str(MaskToken), Str(".")>>, <<>>)
       ELSE IF pid = 2
       THEN Filled(<<passage, Str(". Based on the previous passage, "), question, Str("? Is \""),
                     answer_, Str("\" a correct answer?"), Str(MaskToken), Str(".")>>, <<>>)
       ELSE IF pid = 3
       THEN Filled(<<passage, question, Str("- ["), Str(MaskToken), Str("]"), answer_>>, <<>>)
       ELSE ReturnsNone

\* WicPVP.get_parts
WicGetParts(pid, ex) ==
    LET text_a == shortenable("<text_a>")
        text_b == shortenable("<text_b>")
    IN IF pid = 0
       THEN Filled(<<Str("\""), text_a, Str("\" / \""), text_b,
                     Str("\" Similar sense of \"<word>\"?"), Str(MaskToken), Str(".")>>, <<>>)
       ELSE IF pid = 1
       THEN Filled(<<text_a, text_b, Str("Does <word> have the same meaning in both sentences?"),
                     Str(MaskToken)>>, <<>>)
       ELSE IF pid = 2
       THEN Filled(<<Str("<word>"), Str(" . Sense (1) (a) \""), text_a, Str("\" ("),
                     Str(MaskToken), Str(") \""), text_b, Str("\"")>>, <<>>)
       ELSE ReturnsNone

\* AgnewsPVP.get_parts
AgnewsGetParts(pid, ex) ==
    LET text_a == shortenable("<text_a>")
        text_b == shortenable("<text_b>")
    IN IF pid = 0 THEN Filled(<<Str(MaskToken), Str(":"), text_a, text_b>>, <<>>)
       ELSE IF pid = 1 THEN Filled(<<Str(MaskToken), Str("News:"), text_a, text_b>>, <<>>)
       ELSE IF pid = 2 THEN Filled(<<text_a, Str("("), Str(MaskToken), Str(")"), text_b>>, <<>>)
       ELSE IF pid = 3 THEN Filled(<<text_a, text_b, Str("("), Str(MaskToken), Str(")")>>, <<>>)
       ELSE IF pid = 4
       THEN Filled(<<Str("[ Category:"), Str(MaskToken), Str("]"), text_a, text_b>>, <<>>)
       ELSE IF pid = 5 THEN Filled(<<Str(MaskToken), Str("-"), text_a, text_b>>, <<>>)
       ELSE Raises("ValueError")

\* YahooPVP.get_parts
YahooGetParts(pid, ex) ==
    LET text_a == shortenable("<text_a>")
        text_b == shortenable("<text_b>")
    IN IF pid = 0 THEN Filled(<<Str(MaskToken), Str(":"), text_a, text_b>>, <<>>)
       ELSE IF pid = 1 THEN Filled(<<Str(MaskToken), Str("Question:"), text_a, text_b>>, <<>>)
       ELSE IF pid = 2 THEN Filled(<<text_a, Str("("), Str(MaskToken), Str(")"), text_b>>, <<>>)
       ELSE IF pid = 3 THEN Filled(<<text_a, text_b, Str("("), Str(MaskToken), Str(")")>>, <<>>)
       ELSE IF pid = 4
       THEN Filled(<<Str("[ Category:"), Str(MaskToken), Str("]"), text_a, text_b>>, <<>>)
       ELSE IF pid = 5 THEN Filled(<<Str(MaskToken), Str("-"), text_a, text_b>>, <<>>)
       ELSE Raises("ValueError")

\* MnliPVP.get_parts
MnliGetParts(pid, ex) ==
    LET text_a == shortenable("<text_a>")
        text_b == shortenable("<text_b>")
    IN IF pid = 0 \/ pid = 2
       THEN Filled(<<Str("\""), text_a, Str("\" ?")>>,
                   <<Str(MaskToken), Str(", \""), text_b, Str("\"")>>)
       ELSE IF pid = 1 \/ pid = 3
       THEN Filled(<<text_a, Str("?")>>, <<Str(MaskToken), Str(","), text_b>>)
       ELSE ReturnsNone

\* YelpPolarityPVP.get_parts, inherited by YelpFullPVP
YelpPolarityGetParts(pid, ex) ==
    LET text == shortenable("<text_a>")
    IN IF pid = 0 THEN Filled(<<Str("It was"), Str(MaskToken), Str("."), text>>, <<>>)
       ELSE IF pid = 1
       THEN Filled(<<text, Str(". All in all, it was"), Str(MaskToken), Str(".")>>, <<>>)
       ELSE IF pid = 2 THEN Filled(<<Str("Just"), Str(MaskToken), Str("!")>>, <<text>>)
       ELSE IF pid = 3
       THEN Filled(<<text>>, <<Str("In summary, the restaurant is"), Str(MaskToken), Str(".")>>)
       ELSE Raises("ValueError")

\* XStancePVP.get_parts
XStanceGetParts(pid, ex) ==
    LET text_a == shortenable("<text_a>")
        text_b == shortenable("<text_b>")
    IN IF pid = 0 \/ pid = 2 \/ pid = 4
       THEN Filled(<<Str("\""), text_a, Str("\"")>>,
                   <<Str(MaskToken), Str(". \""), text_b, Str("\"")>>)
       ELSE IF pid = 1 \/ pid = 3 \/ pid = 5
       THEN Filled(<<text_a>>, <<Str(MaskToken), Str("."), text_b>>)
       ELSE ReturnsNone

\* the table PVPS: task name to class
PVPS ==
    [t \in {"agnews", "mnli", "yelp-polarity", "yelp-full", "yahoo", "xstance", "xstance-de",
            "xstance-fr", "rte", "wic", "cb", "wsc", "boolq", "copa", "multirc", "record",
            "ax-b", "ax-g"} |->
        CASE t = "agnews" -> "AgnewsPVP"
          [] t = "mnli" -> "MnliPVP"
          [] t = "yelp-polarity" -> "YelpPolarityPVP"
          [] t = "yelp-full" -> "YelpFullPVP"
          [] t = "yahoo" -> "YahooPVP"
          [] t \in {"xstance", "xstance-de", "xstance-fr"} -> "XStancePVP"
          [] t \in {"rte", "ax-b", "ax-g"} -> "RtePVP"
          [] t = "wic" -> "WicPVP"
          [] t = "cb" -> "CbPVP"
          [] t = "wsc" -> "WscPVP"
          [] t = "boolq" -> "BoolQPVP"
          [] t = "copa" -> "CopaPVP"
          [] t = "multirc" -> "MultiRcPVP"
          [] t = "record" -> "RecordPVP"]

\* self.get_parts(example), dispatched on the class of self
get_parts(cls, pid, ex) ==
    CASE cls = "CopaPVP" -> CopaGetParts(pid, ex)
      [] cls = "WscPVP" -> WscGetParts(pid, ex)
      [] cls = "RecordPVP" -> RecordGetParts(pid, ex)
      [] cls = "RtePVP" -> RteGetParts(pid, ex)
      [] cls = "CbPVP" -> CbGetParts(pid, ex)
      [] cls = "BoolQPVP" -> BoolQGetParts(pid, ex)
      [] cls = "MultiRcPVP" -> MultiRcGetParts(pid, ex)
      [] cls = "WicPVP" -> WicGetParts(pid, ex)
      [] cls = "AgnewsPVP" -> AgnewsGetParts(pid, ex)
      [] cls = "YahooPVP" -> YahooGetParts(pid, ex)
      [] cls = "MnliPVP" -> MnliGetParts(pid, ex)
      [] cls \in {"YelpPolarityPVP", "YelpFullPVP"} -> YelpPolarityGetParts(pid, ex)
      [] cls = "XStancePVP" -> XStanceGetParts(pid, ex)

\* the pattern ids a class defines: those its get_parts and verbalize name
PatternIds(cls) ==
    CASE cls = "CopaPVP" -> 0..1
      [] cls = "WscPVP" -> 0..2
      [] cls = "RecordPVP" -> {0}
      [] cls \in {"RtePVP", "CbPVP"} -> 0..4
      [] cls = "BoolQPVP" -> 0..5
      [] cls = "MultiRcPVP" -> 0..3
      [] cls = "WicPVP" -> 0..2
      [] cls \in {"AgnewsPVP", "YahooPVP"} -> 0..5
      [] cls = "MnliPVP" -> 0..3
      [] cls \in {"YelpPolarityPVP", "YelpFullPVP"} -> 0..3
      [] cls = "XStancePVP" -> 0..5

\* PVP.is_multi_token and its overrides
is_multi_token(cls) == cls \in {"CopaPVP", "WscPVP", "RecordPVP"}

\* -------------------------------------------------------------- tokenizer
\* tokenizer.get_command('MASK').Id
MaskId == 50

\* the id of the start token and of the answer placeholder token
ClsId == 51
SopId == 52
PadId == 0

\* the id a template string or a verbalizer word tokenizes to, when it is one token
LiteralId == 60

\* tokenizer.all_special_ids
all_special_ids == {MaskId, ClsId, SopId, PadId}

\* the name of the k-th answer candidate's text
AnswerText(k) ==
    CASE k = 1 -> "<answer1>" [] k = 2 -> "<answer2>" [] k = 3 -> "<answer3>"
      [] OTHER -> "<answer4>"

AnswerTexts == {AnswerText(k) : k \in 1..4}

AnswerIndex(x) == CHOOSE k \in 1..4 : AnswerText(k) = x

\* tokenizer.EncodeAsIds(x): the text of an example field tokenizes to the
\* ids the example carries for it, the mask to the mask id, a word the
\* vocabulary splits to two ids, any other string to one id
EncodeAsIds(x, ex) ==
    CASE x = MaskToken -> <<MaskId>>
      [] x = "<text_a>" -> ex.text_a
      [] x = "<text_b>" -> ex.text_b
      [] x = "<text_b with [MASK]>" -> <<MaskId>> \o ex.text_b
      [] x = "<choice1>" -> ex.answers[1]
      [] x = "<choice2>" -> ex.answers[2]
      [] x \in AnswerTexts -> ex.answers[AnswerIndex(x)]
      [] x = "Relationship" -> <<LiteralId + 1, LiteralId + 2>>
      [] x \in {"Yes", "true", "True"} -> <<LiteralId + 3>>
      [] x \in {"No", "false", "False"} -> <<LiteralId + 4>>
      [] OTHER -> <<LiteralId>>

\* the truth value of the string x: only the text of an example field can be empty
NonEmptyText(x, ex) ==
    CASE x = "<text_a>" -> ex.text_a # <<>>
      [] x = "<text_b>" -> ex.text_b # <<>>
      [] OTHER -> TRUE

\* get_verbalization_ids with force_single_token=True accepting any id count
VerbalizationIdsUnchecked(word, ex, force_single_token) ==
    LET ids == EncodeAsIds(word, ex)
    IN IF ~force_single_token THEN [raised |-> FALSE, error |-> "", value |-> ids]
       ELSE [raised |-> FALSE, error |-> "", value |-> IF ids = <<>> THEN PadId ELSE ids[1]]

\* get_verbalization_ids
get_verbalization_ids(word, ex, force_single_token) ==
    LET ids == EncodeAsIds(word, ex)
    IN IF ~force_single_token THEN [raised |-> FALSE, error |-> "", value |-> ids]
       ELSE IF Len(ids) # 1 THEN [raised |-> TRUE, error |-> "AssertionError", value |-> <<>>]
       ELSE IF ids[1] \in all_special_ids
            THEN [raised |-> TRUE, error |-> "AssertionError", value |-> <<>>]
            ELSE [raised |-> FALSE, error |-> "", value |-> ids[1]]

\* the ids a tokenizer may give a word: regular and special ones
MaxIds == 2

TokenIdInputs == all_special_ids \cup {11, LiteralId}

IdsInputs == UNION {[1..n -> TokenIdInputs] : n \in 0..MaxIds}

\* a tokenizer that gives the word "<answer1>" the ids t
TokenizerGiving(t) == [NoExample EXCEPT !.answers = <<t>>]

\* the words get_verbalization_ids is called with
WordInputs == {AnswerText(1), "Yes", "Relationship", MaskToken}

\* a call of get_verbalization_ids at hand, nothing else under way
IdsInit ==
    /\ TruncIdle
    /\ VerbIdle
    /\ EncIdle
    /\ word_arg \in WordInputs
    /\ tokenizer \in IF word_arg = AnswerText(1) THEN {TokenizerGiving(t) : t \in IdsInputs}
                     ELSE {NoExample}
    /\ force_arg \in BOOLEAN
    /\ gpc = "call"
    /\ gresult = NoReturn

\* the call get_verbalization_ids(word, tokenizer, force_single_token)
GetVerbalizationIds ==
    /\ gpc = "call"
    /\ gresult' = get_verbalization_ids(word_arg, tokenizer, force_arg)
    /\ gpc' = IF gresult'.raised THEN "raised" ELSE "returned"
    /\ UNCHANGED <<word_arg, tokenizer, force_arg>>
    /\ UNCHANGED <<tvars, fvars, evars>>

IdsNext == GetVerbalizationIds

SpecIds == IdsInit /\ [][IdsNext]_vars

\* ------------------------------------------------------------- verbalizers
Returned(v) == [raised |-> FALSE, error |-> "", value |-> v]

Raised(e) == [raised |-> TRUE, error |-> e, value |-> <<>>]

\* d[label] on a class-level VERBALIZER dict
Lookup(d, l) == IF l \in DOMAIN d THEN Returned(d[l]) ELSE Raised("KeyError")

RteVERBALIZER == [l \in {"not_entailment", "entailment"} |->
                    IF l = "not_entailment" THEN <<"No">> ELSE <<"Yes">>]

CbVERBALIZER == [l \in {"contradiction", "entailment", "neutral"} |->
                    CASE l = "contradiction" -> <<"No">>
                      [] l = "entailment" -> <<"Yes">>
                      [] l = "neutral" -> <<"Maybe">>]

BoolQVERBALIZER_A == [l \in {"False", "True"} |-> IF l = "False" THEN <<"No">> ELSE <<"Yes">>]

BoolQVERBALIZER_B == [l \in {"False", "True"} |-> IF l = "False" THEN <<"false">> ELSE <<"true">>]

MultiRcVERBALIZER == [l \in {"0", "1"} |-> IF l = "0" THEN <<"No">> ELSE <<"Yes">>]

WicVERBALIZER_A == [l \in {"F", "T"} |-> IF l = "F" THEN <<"No">> ELSE <<"Yes">>]

WicVERBALIZER_B == [l \in {"F", "T"} |-> IF l = "F" THEN <<"2">> ELSE <<"b">>]

AgnewsVERBALIZER == [l \in {"1", "2", "3", "4"} |->
                        CASE l = "1" -> <<"World">> [] l = "2" -> <<"Sports">>
                          [] l = "3" -> <<"Business">> [] l = "4" -> <<"Tech">>]

YahooVERBALIZER == [l \in {"1", "2", "3", "4", "5", "6", "7", "8", "9", "10"} |->
                        CASE l = "1" -> <<"Society">> [] l = "2" -> <<"Science">>
                          [] l = "3" -> <<"Health">> [] l = "4" -> <<"Education">>
                          [] l = "5" -> <<"Computer">> [] l = "6" -> <<"Sports">>
                          [] l = "7" -> <<"Business">> [] l = "8" -> <<"Entertainment">>
                          [] l = "9" -> <<"Relationship">> [] l = "10" -> <<"Politics">>]

MnliVERBALIZER_A == [l \in {"contradiction", "entailment", "neutral"} |->
                        CASE l = "contradiction" -> <<"Wrong">>
                          [] l = "entailment" -> <<"Right">>
                          [] l = "neutral" -> <<"Maybe">>]

MnliVERBALIZER_B == CbVERBALIZER

YelpPolarityVERBALIZER == [l \in {"1", "2"} |-> IF l = "1" THEN <<"bad">> ELSE <<"good">>]

YelpFullVERBALIZER == [l \in {"1", "2", "3", "4", "5"} |->
                          CASE l = "1" -> <<"terrible">> [] l = "2" -> <<"bad">>
                            [] l = "3" -> <<"okay">> [] l = "4" -> <<"good">>
                            [] l = "5" -> <<"great">>]

XStanceVERBALIZERS ==
    [lang \in {"en", "de", "fr"} |->
        [l \in {"FAVOR", "AGAINST"} |->
            CASE lang = "en" -> IF l = "FAVOR" THEN <<"Yes">> ELSE <<"No">>
              [] lang = "de" -> IF l = "FAVOR" THEN <<"Ja">> ELSE <<"Nein">>
              [] lang = "fr" -> IF l = "FAVOR" THEN <<"Oui">> ELSE <<"Non">>]]

\* the verbalize method of each class
class_verbalize(cls, pid, l) ==
    CASE cls \in {"CopaPVP", "WscPVP", "RecordPVP"} -> Returned(<<>>)
      [] cls = "RtePVP" ->
            IF pid = 4 THEN Returned(IF l = "entailment" THEN <<"true">> ELSE <<"false">>)
            ELSE Lookup(RteVERBALIZER, l)
      [] cls = "CbPVP" ->
            IF pid = 4
            THEN Returned(IF l = "entailment" THEN <<"true">>
                          ELSE IF l = "contradiction" THEN <<"false">> ELSE <<"neither">>)
            ELSE Lookup(CbVERBALIZER, l)
      [] cls = "BoolQPVP" ->
            IF pid = 0 \/ pid = 2 \/ pid = 4 THEN Lookup(BoolQVERBALIZER_A, l)
            ELSE Lookup(BoolQVERBALIZER_B, l)
      [] cls = "MultiRcPVP" ->
            IF pid = 3 THEN Returned(IF l = "0" THEN <<"False">> ELSE <<"True">>)
            ELSE Lookup(MultiRcVERBALIZER, l)
      [] cls = "WicPVP" ->
            IF pid = 2 THEN Lookup(WicVERBALIZER_B, l) ELSE Lookup(WicVERBALIZER_A, l)
      [] cls = "AgnewsPVP" -> Lookup(AgnewsVERBALIZER, l)
      [] cls = "YahooPVP" -> Lookup(YahooVERBALIZER, l)
      [] cls = "MnliPVP" ->
            IF pid = 0 \/ pid = 1 THEN Lookup(MnliVERBALIZER_A, l)
            ELSE Lookup(MnliVERBALIZER_B, l)
      [] cls = "YelpPolarityPVP" -> Lookup(YelpPolarityVERBALIZER, l)
      [] cls = "YelpFullPVP" -> Lookup(YelpFullVERBALIZER, l)
      [] cls = "XStancePVP" ->
            Lookup(XStanceVERBALIZERS[IF pid < 2 THEN "de" ELSE IF pid < 4 THEN "en" ELSE "fr"], l)

\* self.verbalize(label): the closure over the file's table when the PVP was
\* constructed with a verbalizer file (lines 51-52), the class's method otherwise
self_verbalize(self, l) ==
    IF self.verbalizer_file
    THEN LET r == verbalize_closure(self.verbalizers, self.pattern_id, l)
         IN IF r.raised THEN Raised("KeyError") ELSE Returned(r.value)
    ELSE class_verbalize(self.cls, self.pattern_id, l)

\* the get_answers method of each class
get_answers(cls, ex) ==
    CASE cls = "CopaPVP" -> <<"<choice1>", "<choice2>">>
      [] cls = "WscPVP" -> <<AnswerText(1)>>
      [] cls = "RecordPVP" -> [k \in 1..Len(ex.answers) |-> AnswerText(k)]
      [] OTHER -> <<>>

\* ------------------------------------------------------- sample assembly
PadTo(ids, n) == [i \in 1..n |-> IF i <= Len(ids) THEN ids[i] ELSE PadId]

\* tasks.data_utils.build_input_from_ids with add_cls, no add_sep, add_piece:
\* seven arrays of width max_seq_length over the start token, the two token
\* sequences in order, the answer placeholder and the answer
build_input_from_ids(text_a_ids, text_b_ids, answer_ids, max_len) ==
    LET context == <<ClsId>> \o text_a_ids \o text_b_ids
        full == context \o <<SopId>> \o answer_ids
    IN [ids |-> PadTo(full, max_len),
        types |-> [i \in 1..max_len |-> 0],
        paddings |-> [i \in 1..max_len |-> IF i <= Len(full) THEN 1 ELSE 0],
        position_ids |-> [i \in 1..max_len |-> IF i <= Len(context) THEN i - 1 ELSE Len(context) - 1],
        sep |-> [i \in 1..max_len |-> IF i <= Len(context) THEN 1 ELSE 0],
        target_ids |-> PadTo(answer_ids, max_len),
        loss_masks |-> [i \in 1..max_len |-> IF i <= Len(answer_ids) THEN 1 ELSE 0]]

\* tasks.data_utils.build_sample: the fields it is given, as one sample
build_sample(ids, positions, masks, lbl, logit_mask, target, unique_id) ==
    [text |-> ids, position |-> positions, mask |-> masks, label |-> lbl,
     logit_mask |-> logit_mask, target |-> target, uid |-> unique_id]

\* ----------------------------------------------------------------- encode
RECURSIVE TokenizeParts(_, _, _)
\* lines 108-109 and 112-113 on the first k segments: tag, drop empty text, tokenize
TokenizeParts(parts, ex, k) ==
    IF k = 0 THEN <<>>
    ELSE LET x == parts[k]
             seg == IF Len(x) = 2 THEN x ELSE <<x[1], FALSE>>
             rest == TokenizeParts(parts, ex, k - 1)
         IN IF NonEmptyText(seg[1], ex)
            THEN Append(rest, <<EncodeAsIds(seg[1], ex), seg[2]>>)
            ELSE rest

RECURSIVE Flatten(_, _)
\* [token_id for part, _ in parts for token_id in part], over the first k segments
Flatten(parts, k) == IF k = 0 THEN <<>> ELSE Flatten(parts, k - 1) \o parts[k][1]

Tokens(parts) == Flatten(parts, Len(parts))

\* list.index(x), counted from 0 as in the source; -1 stands for its ValueError
PyIndex(seq, x) ==
    IF \E i \in 1..Len(seq) : seq[i] = x
    THEN (CHOOSE i \in 1..Len(seq) : seq[i] = x /\ \A j \in 1..(i - 1) : seq[j] # x) - 1
    ELSE -1

\* an assignment to the slot after idx
SetItemOffByOne(seq, idx, v) == [i \in 1..Len(seq) |-> IF i = idx + 2 THEN v ELSE seq[i]]

\* seq[idx] = v, idx counted from 0
SetItem(seq, idx, v) == [seq EXCEPT ![idx + 1] = v]

\* lines 106-113: the unpacking of what get_parts gave, and the tokenization
TokenizeBoth(gp, ex) ==
    IF gp.kind = "raised"
    THEN [raised |-> TRUE, error |-> gp.error, a |-> <<>>, b |-> <<>>]
    ELSE IF gp.kind = "none"
    THEN [raised |-> TRUE, error |-> "TypeError", a |-> <<>>, b |-> <<>>]
    ELSE [raised |-> FALSE, error |-> "",
          a |-> TokenizeParts(gp.a, ex, Len(gp.a)),
          b |-> IF gp.b # <<>> THEN TokenizeParts(gp.b, ex, Len(gp.b)) ELSE gp.b]

\* encode without the usage check of lines 102-103
EncodePreludeUnchecked(self, ex, p, l) ==
    TokenizeBoth(get_parts(self.cls, self.pattern_id, ex), ex)

\* lines 102-113: the usage check, get_parts and the tokenization of the parts
EncodePrelude(self, ex, p, l) ==
    IF (~p) /\ l THEN [raised |-> TRUE, error |-> "AssertionError", a |-> <<>>, b |-> <<>>]
    ELSE TokenizeBoth(get_parts(self.cls, self.pattern_id, ex), ex)

\* lines 152-157: the label's verbalization written over the mask
PrimingLabel(self, ex, input_ids) ==
    LET mask_idx == PyIndex(input_ids, MaskId)
    IN IF mask_idx < 0 THEN Raised("ValueError")
       ELSE IF mask_idx # 1 THEN Raised("AssertionError")
       ELSE LET v == self_verbalize(self, ex.label.value)
            IN IF v.raised THEN v
               ELSE IF Len(v.value) # 1 THEN Raised("AssertionError")
               ELSE LET id == get_verbalization_ids(v.value[1], ex, TRUE)
                    IN IF id.raised THEN id
                       ELSE Returned(SetItem(input_ids, mask_idx, id.value))

\* lines 144-165 on the truncated parts
EncodeSingle(self, ex, p, l, ta, tb) ==
    LET tokens_a == Tokens(ta)
        tokens_b == Tokens(tb)
    IN IF p
       THEN LET input_ids == tokens_a \o tokens_b
            IN IF l THEN PrimingLabel(self, ex, input_ids) ELSE Returned(input_ids)
       ELSE LET data == build_input_from_ids(tokens_a, tokens_b, <<>>, self.max_seq_length)
                idx == PyIndex(self.label_list, ex.label.value)
            IN IF idx < 0 THEN Raised("ValueError")
               ELSE Returned(build_sample(data.ids, data.position_ids, data.sep, idx,
                                          data.loss_masks, data.target_ids, 0))

\* what encode leaves: the outcome r and its locals parts_a, parts_b
EncodeResult(r, a, b) ==
    [raised |-> r.raised, error |-> r.error, value |-> r.value, a |-> a, b |-> b]

\* lines 142-165 once truncate has run with outcome t
EncodeTruncated(self, ex, p, l, t) ==
    IF t.raised THEN EncodeResult(Raised("ValueError"), t.a, t.b)
    ELSE EncodeResult(EncodeSingle(self, ex, p, l, t.a, t.b), t.a, t.b)

\* lines 142-143 once the parts are tokenized with outcome pre
EncodeTokenized(self, ex, p, l, pre) ==
    IF pre.raised THEN EncodeResult(Raised(pre.error), <<>>, <<>>)
    ELSE EncodeTruncated(self, ex, p, l, truncate(pre.a, pre.b, <<>>, self.max_seq_length))

\* encode on a single-token PVP, lines 102-113 and 142-165: what it returns or
\* raises, and its locals parts_a and parts_b as truncate leaves them
encode(self, ex, p, l) == EncodeTokenized(self, ex, p, l, EncodePrelude(self, ex, p, l))

\* the body of the candidate loop with this_parts_a, this_parts_b bound to the
\* shared lists themselves
CandidateStepAliased(self, ex, shared_a, shared_b, ans) ==
    LET answer_ids == get_verbalization_ids(ans, ex, FALSE).value
        t == truncate(shared_a, shared_b, answer_ids, self.max_seq_length)
    IN [raised |-> t.raised, parts_a |-> t.a, parts_b |-> t.b,
        this_parts_a |-> t.a, this_parts_b |-> t.b,
        data |-> build_input_from_ids(Tokens(t.a), Tokens(t.b), answer_ids,
                                      self.max_seq_length)]

\* lines 119-126: the body of the candidate loop; truncate works on deep
\* copies, the shared parts_a and parts_b stay as they are
CandidateStep(self, ex, shared_a, shared_b, ans) ==
    LET answer_ids == get_verbalization_ids(ans, ex, FALSE).value
        t == truncate(shared_a, shared_b, answer_ids, self.max_seq_length)
    IN [raised |-> t.raised, parts_a |-> shared_a, parts_b |-> shared_b,
        this_parts_a |-> t.a, this_parts_b |-> t.b,
        data |-> build_input_from_ids(Tokens(t.a), Tokens(t.b), answer_ids,
                                      self.max_seq_length)]

\* what len(label) and iteration see of a label: the elements of a list, the
\* characters of a string
Items(lbl) == lbl.items

\* lines 132-136: the label of the multi-token sample
MultiLabel(self, ex) ==
    IF ex.label.kind = "int" THEN Raised("TypeError")
    ELSE LET items == Items(ex.label)
         IN IF Len(items) = 0 THEN Raised("IndexError")
            ELSE IF \E i \in 1..Len(items) : PyIndex(self.label_list, items[i]) < 0
            THEN Raised("ValueError")
            ELSE Returned([i \in 1..Len(items) |-> PyIndex(self.label_list, items[i])])

\* ---------------------------------------------------------- encode inputs
MaxTextLen == 2       \* tokens of text_a
MaxCandidates == 2    \* answer candidates of a ReCoRD example

TextAInputs == {SegTokens(10, n) : n \in 0..MaxTextLen}

TextBInputs == {<<>>, <<21>>}

\* candidate answers of one and of two tokens
CandidatePool == {<<31>>, <<41, 42>>}

\* every pattern id from 0 to one past the largest any class names
PatternIdInputs == 0..6

MaxSeqLengthInputs == {5, 7, 12}

\* the label list the task's processor hands to the constructor
LabelListOf(cls) ==
    CASE cls \in {"CopaPVP", "WscPVP", "RecordPVP", "MultiRcPVP"} -> <<"0", "1">>
      [] cls = "RtePVP" -> <<"entailment", "not_entailment">>
      [] cls \in {"CbPVP", "MnliPVP"} -> <<"contradiction", "entailment", "neutral">>
      [] cls = "BoolQPVP" -> <<"False", "True">>
      [] cls = "WicPVP" -> <<"F", "T">>
      [] cls = "AgnewsPVP" -> <<"1", "2", "3", "4">>
      [] cls = "YahooPVP" -> <<"1", "2", "3", "4", "5", "6", "7", "8", "9", "10">>
      [] cls = "YelpPolarityPVP" -> <<"1", "2">>
      [] cls = "YelpFullPVP" -> <<"1", "2", "3", "4", "5">>
      [] cls = "XStancePVP" -> <<"FAVOR", "AGAINST">>

\* the characters of the strings a multi-token example is labelled with
Chars(str) ==
    CASE str = "1" -> <<"1">>
      [] str = "10" -> <<"1", "0">>
      [] str = "" -> <<>>

\* a label is a string (value, and the characters iteration yields) or a list
\* (its elements); the single-token path never iterates a label
Str_(v) == [kind |-> "str", value |-> v, items |-> Chars(v)]

Scalar_(v) == [kind |-> "str", value |-> v, items |-> <<>>]

List_(v) == [kind |-> "list", value |-> "", items |-> v]

\* the labels an example of the class is tried with
ExampleLabels(cls) ==
    IF is_multi_token(cls)
    THEN {List_(<<>>), List_(<<"1", "0">>), Str_("1"), Str_("10")}
    ELSE {Scalar_(LabelListOf(cls)[1]), Scalar_("unlisted")}

AnswersOf(cls) ==
    CASE cls = "CopaPVP" -> [1..2 -> CandidatePool]
      [] cls = "WscPVP" -> [1..1 -> CandidatePool]
      [] cls = "RecordPVP" -> UNION {[1..n -> CandidatePool] : n \in 0..MaxCandidates}
      [] OTHER -> {<<>>}

ExampleInputs(cls) ==
    {[text_a |-> ta, text_b |-> tb, answers |-> an, question |-> q, has_placeholder |-> hp,
      label |-> lb, guid |-> 1] :
        ta \in TextAInputs,
        tb \in IF cls \in {"CopaPVP", "WscPVP", "YelpPolarityPVP", "YelpFullPVP"}
               THEN {<<>>} ELSE TextBInputs,
        an \in AnswersOf(cls),
        q \in IF cls = "CopaPVP" THEN {"cause", "effect", "result"} ELSE {""},
        hp \in IF cls = "RecordPVP" THEN BOOLEAN ELSE {TRUE},
        lb \in ExampleLabels(cls)}

\* the examples the pattern dispatch is tried with
DispatchExamples(cls) ==
    {[text_a |-> <<11>>, text_b |-> <<21>>,
      answers |-> IF cls = "CopaPVP" THEN <<<<31>>, <<41, 42>>>> ELSE <<<<31>>>>,
      question |-> q, has_placeholder |-> hp,
      label |-> IF is_multi_token(cls) THEN List_(<<"1">>) ELSE Scalar_(LabelListOf(cls)[1]),
      guid |-> 1] :
        q \in IF cls = "CopaPVP" THEN {"cause", "effect", "result"} ELSE {""},
        hp \in IF cls = "RecordPVP" THEN BOOLEAN ELSE {TRUE}}

\* the verbalizer files a single-token PVP is constructed with: none, or a
\* pattern-0 section with one line for the first label
VerbalizerFileInputs(cls, lbl) ==
    IF is_multi_token(cls) \/ lbl.value # LabelListOf(cls)[1] THEN {<<>>}
    ELSE {<<>>} \cup
         {<<Line(<<h>>, FALSE), Line(<<LabelListOf(cls)[1]>> \o r, FALSE)>> :
             h \in DigitWords,
             r \in {<<"Yes">>, <<"Yes", "No">>, <<"Relationship">>, <<MaskToken>>}}

\* one task name per class
EncodeTasks == DOMAIN PVPS \ {"xstance-de", "xstance-fr", "ax-b", "ax-g"}

\* the pattern ids a class names, and the one after them
EncodePatternIds(cls) ==
    {p \in PatternIdInputs : p \in PatternIds(cls) \/ p - 1 \in PatternIds(cls)}

\* --------------------------------------------------------- encode actions
\* encode not yet called: its locals, and truncate's, empty
EncodeReady ==
    /\ label = ""
    /\ vresult = NoResult
    /\ priming = FALSE
    /\ labeled = FALSE
    /\ epc = "ready"
    /\ answers = <<>>
    /\ cand = 0
    /\ ids_list = <<>>
    /\ positions_list = <<>>
    /\ sep_list = <<>>
    /\ mask_list = <<>>
    /\ target_list = <<>>
    /\ this_list = <<>>
    /\ ret = NoReturn
    /\ parts_a = <<>>
    /\ parts_b = <<>>
    /\ answer = <<>>
    /\ max_length = 0
    /\ init_a = <<>>
    /\ init_b = <<>>
    /\ num_tokens_to_remove = 0
    /\ iter = 0
    /\ pc = "idle"
    /\ last = NoIteration

\* the PVP after __init__ (lines 45-52), and an example at hand
EncInit ==
    /\ IdsIdle
    /\ task \in EncodeTasks
    /\ pattern_id \in EncodePatternIds(PVPS[task])
    /\ label_list = LabelListOf(PVPS[task])
    /\ max_seq_length \in MaxSeqLengthInputs
    /\ example \in ExampleInputs(PVPS[task])
    /\ fh \in VerbalizerFileInputs(PVPS[task], example.label)
    /\ verbalizers = IF fh = <<>> THEN EmptyDict
                     ELSE _load_verbalizer_from_file(fh, pattern_id).verbalizers
    /\ vpc = IF fh = <<>> THEN "idle" ELSE "loaded"
    /\ EncodeReady

\* every task of PVPS under every pattern id, without a verbalizer file
DispatchInit ==
    /\ IdsIdle
    /\ task \in DOMAIN PVPS
    /\ pattern_id \in PatternIdInputs
    /\ label_list = LabelListOf(PVPS[task])
    /\ max_seq_length = 12
    /\ example \in DispatchExamples(PVPS[task])
    /\ fh = <<>>
    /\ verbalizers = EmptyDict
    /\ vpc = "idle"
    /\ EncodeReady

\* self, as the methods see it
Self ==
    [cls |-> PVPS[task], pattern_id |-> pattern_id, label_list |-> label_list,
     max_seq_length |-> max_seq_length, verbalizer_file |-> vpc = "loaded",
     verbalizers |-> verbalizers]

\* a call of get_parts(example)
GetParts ==
    /\ epc = "ready"
    /\ ret' = get_parts(PVPS[task], pattern_id, example)
    /\ epc' = "got_parts"
    /\ UNCHANGED <<task, label_list, max_seq_length, example, priming, labeled, answers, cand,
                   ids_list, positions_list, sep_list, mask_list, target_list, this_list>>
    /\ UNCHANGED <<tvars, fvars, gvars>>

\* a call of encode(example, priming, labeled): lines 102-117, and for a
\* single-token PVP lines 142-165 as well; parts_a and parts_b are encode's locals
EncodeCall ==
    /\ epc = "ready"
    /\ \E p \in BOOLEAN, l \in BOOLEAN :
          /\ priming' = p
          /\ labeled' = l
          /\ \E pre \in {EncodePrelude(Self, example, p, l)} :
                IF pre.raised
                THEN /\ epc' = "raised"
                     /\ ret' = Raised(pre.error)
                     /\ UNCHANGED <<parts_a, parts_b, init_a, init_b, answers>>
                ELSE /\ init_a' = pre.a
                     /\ init_b' = pre.b
                     /\ IF is_multi_token(PVPS[task])
                        THEN /\ answers' = get_answers(PVPS[task], example)
                             /\ parts_a' = pre.a
                             /\ parts_b' = pre.b
                             /\ epc' = "candidates"
                             /\ ret' = ret
                        ELSE \E r \in {EncodeTokenized(Self, example, p, l, pre)} :
                                /\ parts_a' = r.a
                                /\ parts_b' = r.b
                                /\ answers' = answers
                                /\ ret' = [raised |-> r.raised, error |-> r.error,
                                           value |-> r.value]
                                /\ epc' = IF r.raised THEN "raised" ELSE "returned"
    /\ UNCHANGED <<task, label_list, max_seq_length, example, cand, ids_list, positions_list,
                   sep_list, mask_list, target_list, this_list>>
    /\ UNCHANGED <<answer, max_length, num_tokens_to_remove, iter, pc, last>>
    /\ UNCHANGED <<fvars, gvars>>

\* lines 118-131: one candidate
EncodeCandidate ==
    /\ epc = "candidates"
    /\ cand < Len(answers)
    /\ LET r == CandidateStep(Self, example, parts_a, parts_b, answers[cand + 1])
       IN /\ parts_a' = r.parts_a
          /\ parts_b' = r.parts_b
          /\ IF r.raised
             THEN /\ epc' = "raised"
                  /\ ret' = Raised("ValueError")
                  /\ UNCHANGED <<cand, ids_list, positions_list, sep_list, mask_list,
                                 target_list, this_list>>
             ELSE /\ epc' = "candidates"
                  /\ ret' = ret
                  /\ cand' = cand + 1
                  /\ ids_list' = Append(ids_list, r.data.ids)
                  /\ positions_list' = Append(positions_list, r.data.position_ids)
                  /\ sep_list' = Append(sep_list, r.data.sep)
                  /\ target_list' = Append(target_list, r.data.target_ids)
                  /\ mask_list' = Append(mask_list, r.data.loss_masks)
                  /\ this_list' = Append(this_list, <<r.this_parts_a, r.this_parts_b>>)
    /\ UNCHANGED <<task, label_list, max_seq_length, example, priming, labeled, answers>>
    /\ UNCHANGED <<answer, max_length, num_tokens_to_remove, iter, pc, init_a, init_b, last>>
    /\ UNCHANGED <<fvars, gvars>>

\* lines 132-140: the label and the sample, once the candidates are done
EncodeFinish ==
    /\ epc = "candidates"
    /\ cand = Len(answers)
    /\ LET lb == MultiLabel(Self, example)
       IN IF lb.raised
          THEN epc' = "raised" /\ ret' = lb
          ELSE /\ epc' = "returned"
               /\ ret' = Returned(build_sample(ids_list, positions_list, sep_list, lb.value,
                                               mask_list, target_list, example.guid))
    /\ UNCHANGED <<task, label_list, max_seq_length, example, priming, labeled, answers, cand,
                   ids_list, positions_list, sep_list, mask_list, target_list, this_list>>
    /\ UNCHANGED <<tvars, fvars, gvars>>

EncNext == GetParts \/ EncodeCall \/ EncodeCandidate \/ EncodeFinish

SpecEncode == EncInit /\ [][EncNext]_vars

SpecDispatch == DispatchInit /\ [][EncNext]_vars

\* ------------------------------------------------------------------ claims
\* reserved: the special-token count, computed once before the loop
Reserved == num_special_tokens_to_add(init_a, init_b, answer, TRUE, FALSE, TRUE)

\* excess of the call
Excess == _seq_length(init_a, FALSE) + _seq_length(init_b, FALSE) + Reserved - max_length

CurrentTotal == _seq_length(parts_a, FALSE) + _seq_length(parts_b, FALSE) + Reserved

EnoughShortenable == _seq_length(init_a, TRUE) + _seq_length(init_b, TRUE) >= Excess

\* C1: with a positive excess and at least that many shortenable tokens on the
\* two parts together, truncate does not raise, and when it has returned the
\* total length plus the reserved count equals max_length exactly.
C1_BudgetSatisfaction ==
    (Excess > 0 /\ EnoughShortenable)
        => /\ pc # "raised"
           /\ pc = "returned" => CurrentTotal = max_length

C1_Witness ==
    /\ pc = "returned"
    /\ Excess > 1
    /\ EnoughShortenable
    /\ parts_a # init_a
    /\ parts_b # init_b
    /\ CurrentTotal = max_length

\* C2 as stated: from shortenable counts 10 and 4 and an excess of 8, truncate
\* ends with shortenable counts A=4 and B=2.
C2_Original ==
    (pc = "returned" /\ _seq_length(init_a, TRUE) = 10 /\ _seq_length(init_b, TRUE) = 4
        /\ Excess = 8)
        => (_seq_length(parts_a, TRUE) = 4 /\ _seq_length(parts_b, TRUE) = 2)

\* C2 amended: from shortenable counts 10 and 4 and an excess of 8, truncate
\* completes and ends with shortenable counts A=3 and B=3.
C2_FairSplit ==
    (_seq_length(init_a, TRUE) = 10 /\ _seq_length(init_b, TRUE) = 4 /\ Excess = 8)
        => /\ pc # "raised"
           /\ pc = "returned"
                => (_seq_length(parts_a, TRUE) = 3 /\ _seq_length(parts_b, TRUE) = 3)

C2_Witness ==
    /\ pc = "returned"
    /\ iter = 8
    /\ _seq_length(init_a, TRUE) = 10
    /\ _seq_length(init_b, TRUE) = 4
    /\ _seq_length(parts_a, TRUE) = 3
    /\ _seq_length(parts_b, TRUE) = 3

InIteration == pc = "loop" /\ iter < num_tokens_to_remove

\* C3 as stated: in an iteration where the shortenable counts are equal the
\* token is taken from part A, and part B is shortened only when its count is
\* strictly greater.
C3_Original ==
    [][/\ (InIteration /\ _seq_length(parts_a, TRUE) = _seq_length(parts_b, TRUE))
            => parts_b' = parts_b
       /\ (InIteration /\ parts_b' # parts_b)
            => _seq_length(parts_b, TRUE) > _seq_length(parts_a, TRUE)]_vars

\* C3 amended: in an iteration where the shortenable counts are equal the
\* token is taken from part B (and the iteration raises when part B has none);
\* part A is shortened only when its count is strictly greater than part B's.
C3_TieShortensB ==
    [][InIteration =>
         /\ _seq_length(parts_a, TRUE) <= _seq_length(parts_b, TRUE)
              => /\ parts_a' = parts_a
                 /\ pc' = "loop" => _seq_length(parts_b', TRUE) = _seq_length(parts_b, TRUE) - 1
                 /\ pc' = "raised" => parts_b' = parts_b
         /\ _seq_length(parts_a, TRUE) > _seq_length(parts_b, TRUE)
              => /\ parts_b' = parts_b
                 /\ pc' = "loop"
                 /\ _seq_length(parts_a', TRUE) = _seq_length(parts_a, TRUE) - 1]_vars

C3_Witness ==
    /\ last.side = "b"
    /\ last.sa = last.sb
    /\ last.sa > 0
    /\ pc = "loop"
    /\ _seq_length(parts_b, TRUE) = last.sb - 1
    /\ parts_a # init_a

Preserved(now, before) ==
    /\ Len(now) = Len(before)
    /\ \A k \in 1..Len(before) :
          /\ now[k][2] = before[k][2]
          /\ ~before[k][2] => now[k][1] = before[k][1]

\* C4: at every point of truncate, raised or not, each part has the segments
\* it was called with, in the same order and with the same tags, and every
\* non-shortenable segment holds the tokens it held at the call.
C4_NonShortenablePreserved ==
    Preserved(parts_a, init_a) /\ Preserved(parts_b, init_b)

C4_Witness ==
    /\ iter >= 2
    /\ parts_a # init_a
    /\ init_a # <<>>
    /\ ~init_a[Len(init_a)][2]
    /\ init_a[Len(init_a)][1] # <<>>
    /\ pc \in {"returned", "raised"}

\* C5: when the total length plus the reserved count is within max_length,
\* truncate leaves every segment of both parts as it was at the call.
C5_NoOpBelowBudget ==
    (Excess <= 0) => (parts_a = init_a /\ parts_b = init_b /\ pc # "raised")

C5_Witness ==
    /\ pc = "returned"
    /\ Excess = 0
    /\ _seq_length(init_a, TRUE) > 0
    /\ _seq_length(init_b, TRUE) > 0
    /\ parts_a = init_a
    /\ parts_b = init_b

SelectedSide == IF ShortenA(parts_a, parts_b) THEN parts_a ELSE parts_b

\* C6: an iteration whose selected side has no shortenable, non-empty segment
\* raises, and truncate never returns with the total length plus the reserved
\* count above max_length.
C6_UnsatisfiableSurfaced ==
    /\ [][(InIteration /\ RemovableIdx(SelectedSide) = {})
            => (pc' = "raised" /\ parts_a' = parts_a /\ parts_b' = parts_b)]_vars
    /\ [](pc = "returned" => CurrentTotal <= max_length)

C6_Witness ==
    /\ pc = "raised"
    /\ iter > 0
    /\ CurrentTotal > max_length

\* the pattern id section line i of the file lies in: the latest digits-only
\* line before it, NoneKey when there is none
RECURSIVE SectionAt(_, _)
SectionAt(lines, i) ==
    IF i <= 1 THEN NoneKey
    ELSE IF IsDigitLine(lines[i - 1]) THEN IntOf(lines[i - 1].words[1])
         ELSE SectionAt(lines, i - 1)

\* the lines of the file that define label l under pattern id pid
LabelLines(lines, pid, l) ==
    {i \in 1..Len(lines) :
        /\ ~IsDigitLine(lines[i])
        /\ lines[i].words # <<>>
        /\ lines[i].words[1] = l
        /\ SectionAt(lines, i) = pid}

\* C9 as stated: the closure returns an empty list, without raising, for a
\* label with no line in the selected pattern id's section, and the token list
\* of the label's line otherwise.
C9_Original ==
    vpc = "called" =>
        /\ ~vresult.raised
        /\ LabelLines(fh, pattern_id, label) = {} => vresult.value = <<>>
        /\ LabelLines(fh, pattern_id, label) # {}
             => vresult.value = Tail1(fh[SetMax(LabelLines(fh, pattern_id, label))].words)

\* C9 amended: the closure raises a lookup error for a label with no line in
\* the selected pattern id's section (also when the file has no such section),
\* and returns the ordered token list of the label's last such line otherwise.
C9_UnknownLabelRaises ==
    vpc = "called" =>
        /\ vresult.raised <=> LabelLines(fh, pattern_id, label) = {}
        /\ LabelLines(fh, pattern_id, label) # {}
             => vresult.value = Tail1(fh[SetMax(LabelLines(fh, pattern_id, label))].words)

C9_Witness ==
    /\ vpc = "called"
    /\ vresult.raised
    /\ LabelLines(fh, pattern_id, label) = {}
    /\ pattern_id \in DOMAIN verbalizers
    /\ verbalizers[pattern_id] # EmptyDict

\* the pattern id is none of those the task's class defines
UndefinedPatternId == pattern_id \notin PatternIds(PVPS[task])

\* C8 as stated: for every task of PVPS, get_parts under a pattern id the task
\* does not define raises, and encode does not get past it: no filled pattern
\* comes back and no None.
C8_Original ==
    UndefinedPatternId =>
        /\ epc = "got_parts" => ret.kind = "raised"
        /\ epc \notin {"candidates", "returned"}

MultiCall == is_multi_token(PVPS[task]) /\ epc \in {"candidates", "returned", "raised"}

\* the ids of the k-th candidate, and truncate run on the parts as tokenized
\* with that candidate alone
CandidateIds(k) == EncodeAsIds(answers[k], example)

AloneTruncated(k) == truncate(init_a, init_b, CandidateIds(k), max_seq_length)

AloneData(k) ==
    build_input_from_ids(Tokens(AloneTruncated(k).a), Tokens(AloneTruncated(k).b),
                         CandidateIds(k), max_seq_length)

\* C7: in the multi-token path each of the five collected lists has one entry
\* per completed candidate, in candidate order, N entries when the sample is
\* returned; the segments candidate k was truncated to are those truncate
\* yields from the tokenized parts with candidate k's answer alone; and the
\* shared tokenized parts stay as they were tokenized.
C7_FanOut ==
    MultiCall =>
        /\ Len(ids_list) = cand
        /\ Len(positions_list) = cand
        /\ Len(sep_list) = cand
        /\ Len(target_list) = cand
        /\ Len(mask_list) = cand
        /\ parts_a = init_a
        /\ parts_b = init_b
        /\ \A k \in 1..cand :
              /\ ~AloneTruncated(k).raised
              /\ this_list[k] = <<AloneTruncated(k).a, AloneTruncated(k).b>>
              /\ ids_list[k] = AloneData(k).ids
              /\ positions_list[k] = AloneData(k).position_ids
              /\ sep_list[k] = AloneData(k).sep
              /\ target_list[k] = AloneData(k).target_ids
              /\ mask_list[k] = AloneData(k).loss_masks
        /\ epc = "returned" =>
              /\ cand = Len(get_answers(PVPS[task], example))
              /\ ret.value.text = ids_list
              /\ ret.value.position = positions_list
              /\ ret.value.mask = sep_list
              /\ ret.value.target = target_list
              /\ ret.value.logit_mask = mask_list

C7_Witness ==
    /\ is_multi_token(PVPS[task])
    /\ epc = "returned"
    /\ cand = 2
    /\ Len(CandidateIds(1)) # Len(CandidateIds(2))
    /\ this_list[1] # this_list[2]
    /\ this_list[1] # <<init_a, init_b>>
    /\ this_list[2] # <<init_a, init_b>>
    /\ parts_a = init_a

\* the call made was encode(example, priming=True, labeled=True) on a single-token PVP
PrimingLabeledCall ==
    /\ ~is_multi_token(PVPS[task])
    /\ epc \in {"returned", "raised"}
    /\ priming
    /\ labeled

\* encode(example, priming=True, labeled=False) on the same PVP and example
Unlabeled == encode(Self, example, TRUE, FALSE)

LabelWords == self_verbalize(Self, example.label.value)

\* C10: when the unlabeled priming sequence has its first mask id at index 1
\* and the label has one verbalization that resolves in strict mode to v, the
\* labeled call returns that sequence with v at index 1; when the first mask
\* id is elsewhere or missing, or the label has another number of
\* verbalizations, the labeled call raises.
C10_PrimingInjection ==
    (PrimingLabeledCall /\ ~Unlabeled.raised) =>
        /\ (/\ PyIndex(Unlabeled.value, MaskId) = 1
            /\ ~LabelWords.raised
            /\ Len(LabelWords.value) = 1
            /\ ~get_verbalization_ids(LabelWords.value[1], example, TRUE).raised)
             => /\ epc = "returned"
                /\ Len(ret.value) = Len(Unlabeled.value)
                /\ ret.value[2] = get_verbalization_ids(LabelWords.value[1], example, TRUE).value
                /\ \A i \in 1..Len(ret.value) : i # 2 => ret.value[i] = Unlabeled.value[i]
        /\ PyIndex(Unlabeled.value, MaskId) # 1 => epc = "raised"
        /\ (~LabelWords.raised /\ Len(LabelWords.value) # 1) => epc = "raised"

C10_Witness ==
    /\ PrimingLabeledCall
    /\ epc = "returned"
    /\ (parts_a # init_a \/ parts_b # init_b)
    /\ PyIndex(Unlabeled.value, MaskId) = 1
    /\ ret.value[2] \notin all_special_ids
    /\ ret.value # Unlabeled.value
    /\ Len(ret.value) > 3

\* an encode call has been made on the PVP
EncodeCalled == epc \in {"candidates", "returned", "raised"}

\* what get_parts gives for the example at hand
PartsOfExample == get_parts(PVPS[task], pattern_id, example)

\* C11: a call encode(example, priming=False, labeled=True) raises the usage
\* error with nothing filled, tokenized or truncated; a call with
\* labeled=False or priming=True passes the check, so that whenever get_parts
\* fills a pattern the parts are tokenized.
C11_Precondition ==
    EncodeCalled =>
        IF (~priming) /\ labeled
        THEN /\ epc = "raised"
             /\ ret = Raised("AssertionError")
             /\ init_a = <<>> /\ init_b = <<>>
             /\ parts_a = <<>> /\ parts_b = <<>>
             /\ cand = 0 /\ ids_list = <<>>
        ELSE PartsOfExample.kind = "parts" =>
                /\ init_a = TokenizeBoth(PartsOfExample, example).a
                /\ init_b = TokenizeBoth(PartsOfExample, example).b
                /\ (init_a # <<>> \/ init_b # <<>>)

C11_Witness ==
    /\ EncodeCalled
    /\ ~priming
    /\ labeled
    /\ PartsOfExample.kind = "parts"
    /\ example.text_a # <<>>
    /\ ret = Raised("AssertionError")

\* the ids the tokenizer gives the word of the call
WordIds == EncodeAsIds(word_arg, tokenizer)

\* C12: with force_single_token=True get_verbalization_ids raises when the
\* word has a number of ids other than one, raises when its one id is a
\* special id, and returns that id otherwise; with force_single_token=False
\* it returns the ids as the tokenizer gave them, of any length and special
\* or not.
C12_StrictVerbalization ==
    gpc \in {"returned", "raised"} =>
        IF force_arg
        THEN IF Len(WordIds) # 1 THEN gpc = "raised"
             ELSE IF WordIds[1] \in all_special_ids THEN gpc = "raised"
             ELSE gpc = "returned" /\ gresult.value = WordIds[1]
        ELSE gpc = "returned" /\ gresult.value = WordIds

C12_Witness ==
    /\ gpc = "returned"
    /\ force_arg
    /\ word_arg = AnswerText(1)
    /\ Len(WordIds) = 1
    /\ gresult.value = 11

\* the multi-token path has run its candidate loop to the end
MultiFinished ==
    /\ is_multi_token(PVPS[task])
    /\ epc \in {"returned", "raised"}
    /\ (init_a # <<>> \/ init_b # <<>>)
    /\ cand = Len(answers)

\* every label of the example is in the label vocabulary
LabelInVocabulary ==
    IF example.label.kind = "list"
    THEN \A i \in 1..Len(example.label.items) :
            PyIndex(label_list, example.label.items[i]) >= 0
    ELSE PyIndex(label_list, example.label.value) >= 0

\* C13: in the multi-token path, with the example's labels in the label
\* vocabulary, encode returns; a list label is stored as the list of its
\* labels' vocabulary indices in order (the empty list for no labels), and a
\* scalar label is stored as its index, not as a list holding it.
C13_Original ==
    (MultiFinished /\ LabelInVocabulary) =>
        /\ epc = "returned"
        /\ IF example.label.kind = "list"
           THEN ret.value.label = [i \in 1..Len(example.label.items) |->
                                      PyIndex(label_list, example.label.items[i])]
           ELSE ret.value.label # <<PyIndex(label_list, example.label.value)>>

\* shortenable token counts at the call and now
ShortA0 == _seq_length(init_a, TRUE)

ShortB0 == _seq_length(init_b, TRUE)

ShortA == _seq_length(parts_a, TRUE)

ShortB == _seq_length(parts_b, TRUE)

InitialGap == IF ShortA0 >= ShortB0 THEN ShortA0 - ShortB0 ELSE ShortB0 - ShortA0

\* C14: when truncate has returned after removing a positive excess that is
\* at least the gap between the initial shortenable counts, part A's final
\* shortenable count equals part B's or is one greater; when the excess is
\* smaller than the gap, only the initially longer side has lost tokens, and
\* it has lost the whole excess.
C14_BalancedOutcome ==
    (pc = "returned" /\ Excess > 0) =>
        IF Excess >= InitialGap
        THEN ShortA = ShortB \/ ShortA = ShortB + 1
        ELSE IF ShortA0 > ShortB0
             THEN parts_b = init_b /\ ShortA = ShortA0 - Excess
             ELSE parts_a = init_a /\ ShortB = ShortB0 - Excess

C14_Witness ==
    /\ pc = "returned"
    /\ Excess > InitialGap
    /\ InitialGap > 0
    /\ parts_a # init_a
    /\ parts_b # init_b
    /\ ShortA = ShortB + 1

====
